---------------------------- MODULE Spec2Model ----------------------------
(***************************************************************************)
(* Model of src/app.py: the FedEx & UPS charge extractor.                  *)
(*                                                                         *)
(* One Streamlit session.  Every interaction (an upload, a button click,   *)
(* a change of a multiselect) reruns the whole script: the FedEx tab       *)
(* (lines 121-139, process_fedex) and then the UPS tab (lines 143-161,     *)
(* process_ups).  The state is what survives a rerun: the two file         *)
(* uploaders, st.session_state, the state of the two keyed multiselect     *)
(* widgets; plus what the last run put on the page.                        *)
(*                                                                         *)
(* Cells are text.  NaN is pandas' missing marker.  Lists whose order is   *)
(* presentation only (the sorted option lists, a multiselect's value) are  *)
(* sets.  Amounts are whole numbers, so sums are exact.                    *)
(***************************************************************************)
EXTENDS Integers, Sequences, FiniteSets, TLC

(***************************************************************************)
(* Bounds of the model.                                                    *)
(***************************************************************************)
MaxFedexRows == 2
MaxUpsRows == 2

(***************************************************************************)
(* Generic helpers.                                                        *)
(***************************************************************************)
Range(s) == {s[i] : i \in 1..Len(s)}

Min(a, b) == IF a <= b THEN a ELSE b

SeqsUpTo(S, n) == UNION {[1..k -> S] : k \in 0..n}

RECURSIVE SumSeq(_)
SumSeq(s) == IF s = <<>> THEN 0 ELSE s[1] + SumSeq(Tail(s))

(***************************************************************************)
(* Cells and their conversions.                                            *)
(***************************************************************************)
NaN == "NaN"

\* pandas' default na_values that the inputs use: such a cell is read as NaN
NaValues == {"", "N/A", "NaN"}

ReadCell(c) == IF c \in NaValues THEN NaN ELSE c

notna(c) == c # NaN

\* the numerals of the input alphabet and the numbers they denote
NumeralValue == ("1" :> 1) @@ ("2" :> 2) @@ ("3" :> 3)

\* pd.to_numeric(..., errors="coerce") on one cell: a number, or missing
to_numeric(c) ==
    IF c \in DOMAIN NumeralValue
    THEN [nan |-> FALSE, v |-> NumeralValue[c]]
    ELSE [nan |-> TRUE, v |-> 0]

\* Series.sum(): missing entries are skipped
NanSum(s) == SumSeq([i \in 1..Len(s) |-> IF s[i].nan THEN 0 ELSE s[i].v])

\* lexicographic order of the text values the inputs use
TextOrder == <<"1", "100", "2", "200", "3", "A", "B", "R1", "R2", "abc">>

Rank(t) == CHOOSE i \in 1..Len(TextOrder) : TextOrder[i] = t

(***************************************************************************)
(* Files and the loader (lines 125-136 and 147-158).                       *)
(***************************************************************************)
EmptyDf == [columns |-> <<>>, rows |-> <<>>]

\* the table a reader returns: every cell through the missing-value filter
Parsed(f) ==
    [columns |-> f.columns,
     rows |-> [i \in 1..Len(f.rows) |->
                 [j \in 1..Len(f.rows[i]) |-> ReadCell(f.rows[i][j])]]]

\* pd.read_csv decodes as UTF-8 and raises on any other content
ReadCsv(f) ==
    IF f.content = "utf8"
    THEN [outcome |-> "table", df |-> Parsed(f)]
    ELSE [outcome |-> "read_error", df |-> EmptyDf]

\* pd.read_excel raises on what is not a workbook
ReadExcel(f) ==
    IF f.content = "workbook"
    THEN [outcome |-> "table", df |-> Parsed(f)]
    ELSE [outcome |-> "read_error", df |-> EmptyDf]

\* the try/except of an upload tab: "table", "read_error" or "unsupported"
LoadFile(f) ==
    IF f.ext = ".csv" THEN ReadCsv(f)
    ELSE IF f.ext = ".xlsx" THEN ReadExcel(f)
    ELSE [outcome |-> "unsupported", df |-> EmptyDf]

HasCol(df, c) == \E i \in 1..Len(df.columns) : df.columns[i] = c

ColPos(df, c) == CHOOSE i \in 1..Len(df.columns) : df.columns[i] = c

\* row.get(col, default)
RowGet(df, row, c, default) == IF HasCol(df, c) THEN row[ColPos(df, c)] ELSE default


Put(d, k, v) == [x \in (DOMAIN d) \cup {k} |-> IF x = k THEN v ELSE d[x]]

Zip(a, b) == [i \in 1..Min(Len(a), Len(b)) |-> <<a[i], b[i]>>]

(***************************************************************************)
(* FedEx parser: process_fedex (lines 10-59).                              *)
(*                                                                         *)
(* A FedEx column name is its text and the one-digit slot suffix that      *)
(* follows it (0: none), so that sorting the names of one family sorts by  *)
(* suffix.                                                                  *)
(***************************************************************************)
DescStem == "Tracking ID Charge Description"
AmtStem == "Tracking ID Charge Amount"

TrackingCol == [text |-> "Express or Ground Tracking ID", n |-> 0]
DescCol(i) == [text |-> DescStem, n |-> i]
AmtCol(i) == [text |-> AmtStem, n |-> i]

\* list.sort() on column names of one family
RECURSIVE SortCols(_)
SortCols(S) ==
    IF S = {} THEN <<>>
    ELSE LET m == CHOOSE x \in S : \A y \in S : x.n <= y.n
         IN <<m>> \o SortCols(S \ {m})

charge_description_cols(df) == SortCols({c \in Range(df.columns) : c.text = DescStem})

charge_amount_cols(df) == SortCols({c \in Range(df.columns) : c.text = AmtStem})

\* output column names: "Tracking ID", and f"{desc} (PL-DZ)"
TrackingLabel == [desc |-> "Tracking ID", tag |-> ""]
Label(desc) == [desc |-> desc, tag |-> " (PL-DZ)"]

\* col.replace(" (PL-DZ)", ""), for descriptions that do not hold the tag
Unlabel(col) == col.desc

\* a slot loop that keeps the cell an earlier slot wrote
RECURSIVE ReshapeSlotsFirst(_, _, _, _)
ReshapeSlotsFirst(df, row, pairs, base) ==
    IF pairs = <<>> THEN base
    ELSE LET desc == RowGet(df, row, pairs[1][1], "")
             amt == RowGet(df, row, pairs[1][2], "")
         IN ReshapeSlotsFirst(df, row, Tail(pairs),
                IF notna(desc) /\ desc # "" /\ Label(desc) \notin DOMAIN base
                THEN Put(base, Label(desc), amt)
                ELSE base)

\* the slot loop of one row: each present description writes its cell
RECURSIVE ReshapeSlots(_, _, _, _)
ReshapeSlots(df, row, pairs, base) ==
    IF pairs = <<>> THEN base
    ELSE LET desc == RowGet(df, row, pairs[1][1], "")
             amt == RowGet(df, row, pairs[1][2], "")
         IN ReshapeSlots(df, row, Tail(pairs),
                IF notna(desc) /\ desc # ""
                THEN Put(base, Label(desc), amt)
                ELSE base)

\* one output dict per input row (lines 19-26)
FedexBase(df, row) ==
    ReshapeSlots(df, row, Zip(charge_description_cols(df), charge_amount_cols(df)),
                 (TrackingLabel :> RowGet(df, row, TrackingCol, "")))

\* pd.DataFrame(rows): the union of the keys, absent cells missing (line 28)
DataFrame(bases) ==
    [columns |-> UNION {DOMAIN bases[i] : i \in 1..Len(bases)},
     rows |-> [i \in 1..Len(bases) |->
                 [c \in UNION {DOMAIN bases[k] : k \in 1..Len(bases)} |->
                     IF c \in DOMAIN bases[i] THEN bases[i][c] ELSE NaN]]]

\* lines 13-28
ResultDf(df) == DataFrame([i \in 1..Len(df.rows) |-> FedexBase(df, df.rows[i])])

\* lines 30-32
FedexOptions(result_df) == {Unlabel(c) : c \in result_df.columns \ {TrackingLabel}}

\* the columns of one row that are shown
Shown(r, selected) == [c \in {TrackingLabel} \cup {Label(p) : p \in selected} |-> r[c]]

\* dropna(how="any"): a row is kept only if no selected cell is missing
KeptRowsAny(result_df, selected) ==
    SelectSeq(result_df.rows, LAMBDA r : \A p \in selected : notna(r[Label(p)]))

KeptRows(result_df, selected) ==
    SelectSeq(result_df.rows, LAMBDA r : \E p \in selected : notna(r[Label(p)]))

\* result_df[columns_to_show].dropna(subset=columns_to_show[1:], how="all")
FedexFiltered(result_df, selected) ==
    [columns |-> {TrackingLabel} \cup {Label(p) : p \in selected},
     rows |-> [i \in 1..Len(KeptRows(result_df, selected)) |->
                 Shown(KeptRows(result_df, selected)[i], selected)]]

\* a summary line that counts the numeric cells only
SummaryLineNumeric(col) ==
    [count |-> Cardinality({i \in 1..Len(col) : ~to_numeric(col[i]).nan}),
     total |-> NanSum([i \in 1..Len(col) |-> to_numeric(col[i])])]

\* the summary line of one column: its non-missing cells, its numeric sum
SummaryLine(col) ==
    [count |-> Cardinality({i \in 1..Len(col) : notna(col[i])}),
     total |-> NanSum([i \in 1..Len(col) |-> to_numeric(col[i])])]

\* the summary line of one penalty (lines 49-57)
FedexSummaryLine(result_df, penalty) ==
    SummaryLine([i \in 1..Len(result_df.rows) |-> result_df.rows[i][Label(penalty)]])

FedexSummary(result_df, selected) ==
    [p \in {q \in selected : Label(q) \in result_df.columns} |->
        FedexSummaryLine(result_df, p)]

(***************************************************************************)
(* UPS parser: process_ups (lines 63-117).                                 *)
(*                                                                         *)
(* A UPS column name is its text and whether whitespace surrounds it.      *)
(***************************************************************************)
Header(text) == [text |-> text, pad |-> FALSE]
Padded(text) == [text |-> text, pad |-> TRUE]

\* str.strip() on a column name
Strip(col) == [col EXCEPT !.pad = FALSE]

charge_col == Header("Charge Description")
amount_col == Header("DTrans Amount")
lead_col == Header("Lead Shipment Number")
ref_col == Header("Shipment Reference Number 1")

base_cols == {lead_col, ref_col, charge_col, amount_col}

\* df.columns = df.columns.str.strip() (line 66)
StripColumns(df) == [df EXCEPT !.columns = [i \in 1..Len(df.columns) |-> Strip(df.columns[i])]]

\* the four base columns of each row, the amount coerced (line 70)
UpsRows(df) ==
    [i \in 1..Len(df.rows) |->
        [lead |-> df.rows[i][ColPos(df, lead_col)],
         ref |-> df.rows[i][ColPos(df, ref_col)],
         charge |-> df.rows[i][ColPos(df, charge_col)],
         amt |-> to_numeric(df.rows[i][ColPos(df, amount_col)])]]

\* sorted(df[charge_col].dropna().unique()) (line 78)
charge_types(rows) == {rows[i].charge : i \in {j \in 1..Len(rows) : notna(rows[j].charge)}}

\* df[df[charge_col].isin(selected_charges)] (line 91)
UpsFiltered(rows, selected) == SelectSeq(rows, LAMBDA r : r.charge \in selected)

\* len(charge_df), and the sum of its amounts
ChargeLine(charge_df) ==
    [count |-> Len(charge_df),
     total |-> NanSum([i \in 1..Len(charge_df) |-> charge_df[i].amt])]

\* the summary line of one charge (lines 95-98)
UpsSummaryLine(filtered, charge) ==
    ChargeLine(SelectSeq(filtered, LAMBDA r : r.charge = charge))

UpsSummary(filtered, selected) == [c \in selected |-> UpsSummaryLine(filtered, c)]

KeyLess(a, b) ==
    \/ Rank(a[1]) < Rank(b[1])
    \/ a[1] = b[1] /\ Rank(a[2]) < Rank(b[2])

\* the sorted group keys of the pivot
RECURSIVE SortKeys(_)
SortKeys(S) ==
    IF S = {} THEN <<>>
    ELSE LET m == CHOOSE x \in S : \A y \in S \ {x} : KeyLess(x, y)
         IN <<m>> \o SortKeys(S \ {m})

\* groupby(dropna=True): a row with a missing key value is in no group
Grouped(filtered) == SelectSeq(filtered, LAMBDA r : notna(r.lead) /\ notna(r.ref))

\* an aggregate that keeps the last amount of the group (aggfunc="last")
LastCell(cell) ==
    IF cell = <<>> THEN [nan |-> TRUE, v |-> 0]
    ELSE [nan |-> FALSE, v |-> NanSum(<<cell[Len(cell)].amt>>)]

\* aggfunc="sum" over the rows of one group and charge; none: a missing cell
SumCell(cell) ==
    IF cell = <<>> THEN [nan |-> TRUE, v |-> 0]
    ELSE [nan |-> FALSE, v |-> NanSum([i \in 1..Len(cell) |-> cell[i].amt])]

PivotCell(grouped, key, charge) ==
    SumCell(SelectSeq(grouped,
                LAMBDA r : r.lead = key[1] /\ r.ref = key[2] /\ r.charge = charge))

RECURSIVE NanSumOver(_, _)
NanSumOver(cells, S) ==
    IF S = {} THEN 0
    ELSE LET c == CHOOSE x \in S : TRUE
         IN (IF cells[c].nan THEN 0 ELSE cells[c].v) + NanSumOver(cells, S \ {c})

\* the Total column: the row's cells summed, missing cells skipped (lines 114-115)
RowTotal(cells) == NanSumOver(cells, DOMAIN cells)

\* one pivoted row with its Total
PivotRow(key, cells) ==
    [lead |-> key[1], ref |-> key[2], cells |-> cells, Total |-> RowTotal(cells)]

PivotOf(grouped, keys, cols) ==
    [columns |-> cols,
     rows |-> [i \in 1..Len(keys) |->
                 PivotRow(keys[i], [c \in cols |-> PivotCell(grouped, keys[i], c)])]]

GroupKeys(grouped) == SortKeys({<<grouped[i].lead, grouped[i].ref>> : i \in 1..Len(grouped)})

GroupCols(grouped) == {grouped[i].charge : i \in 1..Len(grouped)}

PivotGrouped(grouped) == PivotOf(grouped, GroupKeys(grouped), GroupCols(grouped))

\* a stable insertion of row r into rows ordered by Total descending
RECURSIVE InsertByTotal(_, _)
InsertByTotal(rows, r) ==
    IF rows = <<>> THEN <<r>>
    ELSE IF rows[1].Total >= r.Total THEN <<rows[1]>> \o InsertByTotal(Tail(rows), r)
    ELSE <<r>> \o rows

RECURSIVE SortByTotal(_, _)
SortByTotal(done, rest) ==
    IF rest = <<>> THEN done
    ELSE SortByTotal(InsertByTotal(done, rest[1]), Tail(rest))

\* the pivot followed by sort_values("Total", ascending=False)
PivotSortedByTotal(filtered) ==
    [PivotGrouped(Grouped(filtered)) EXCEPT !.rows = SortByTotal(<<>>, @)]

\* filtered_df.pivot_table(...).reset_index() with its Total (lines 103-115)
Pivot(filtered) == PivotGrouped(Grouped(filtered))

(***************************************************************************)
(* The session.                                                            *)
(***************************************************************************)
VARIABLES
    fedex_file,       \* the file in the FedEx uploader, or NoFile
    ups_file,         \* the file in the UPS uploader, or NoFile
    session_state,    \* st.session_state: the keys the script sets
    widgets,          \* the state of the keyed multiselects
    fedex_view,       \* what the last run put on the FedEx tab
    ups_view,         \* what the last run put on the UPS tab
    uncaught,         \* the exception that ended the last run, or "none"
    event             \* the interaction that caused the last run

vars == <<fedex_file, ups_file, session_state, widgets, fedex_view, ups_view,
          uncaught, event>>

NoFile == [ext |-> "", content |-> "", columns |-> <<>>, rows |-> <<>>]

NoTable == [columns |-> {}, rows |-> <<>>]

FedexView(status) ==
    [status |-> status, result_df |-> NoTable, options |-> {}, selected |-> {},
     table |-> NoTable, summary |-> [x \in {} |-> {}]]

UpsView(status) ==
    [status |-> status, found |-> <<>>, options |-> {}, selected |-> {},
     summary |-> [x \in {} |-> {}], pivot |-> NoTable]

(***************************************************************************)
(* st.multiselect(options, default, key) (lines 37-42 and 83-88).  A       *)
(* default outside the options raises StreamlitAPIException.  The widget   *)
(* keeps the value the user gave it for as long as its options and its     *)
(* default are those of the run before; when either changes it is a new    *)
(* widget, which starts at its default.                                    *)
(***************************************************************************)
Multiselect(key, options, default, wid) ==
    IF ~(default \subseteq options)
    THEN [raised |-> TRUE, wid |-> wid, value |-> {}]
    ELSE IF key \in DOMAIN wid /\ wid[key].options = options /\ wid[key].default = default
    THEN [raised |-> FALSE, wid |-> wid, value |-> wid[key].value]
    ELSE [raised |-> FALSE,
          wid |-> Put(wid, key, [options |-> options, default |-> default, value |-> default]),
          value |-> default]

\* st.session_state.get(key, [])
StateGet(ss, key) == IF key \in DOMAIN ss THEN ss[key] ELSE {}

\* lines 44-59: the table and the summary, or nothing for an empty selection
FedexRender(result_df, options, ss, ms) ==
    IF ms.raised
    THEN [ss |-> ss, wid |-> ms.wid, raised |-> "StreamlitAPIException",
          view |-> [FedexView("selector_error") EXCEPT
                       !.result_df = result_df, !.options = options]]
    ELSE [ss |-> ss, wid |-> ms.wid, raised |-> "none",
          view |-> IF ms.value # {}
                   THEN [status |-> "rendered",
                         result_df |-> result_df,
                         options |-> options,
                         selected |-> ms.value,
                         table |-> FedexFiltered(result_df, ms.value),
                         summary |-> FedexSummary(result_df, ms.value)]
                   ELSE [FedexView("nothing_selected") EXCEPT
                            !.result_df = result_df, !.options = options]]

\* lines 37-42
FedexSelect(result_df, options, ss, wid) ==
    FedexRender(result_df, options, ss,
        Multiselect("fedex_multiselect", options, StateGet(ss, "fedex_selected"), wid))

\* lines 34-35; click: the "Select All" button was pressed
FedexButton(result_df, options, click, ss, wid) ==
    FedexSelect(result_df, options,
        IF click THEN Put(ss, "fedex_selected", options) ELSE ss, wid)

FedexReshaped(result_df, click, ss, wid) ==
    FedexButton(result_df, FedexOptions(result_df), click, ss, wid)

\* one run of process_fedex
process_fedex(df, click, ss, wid) == FedexReshaped(ResultDf(df), click, ss, wid)

FedexLoaded(ld, click, ss, wid) ==
    IF ld.outcome = "table"
    THEN process_fedex(ld.df, click, ss, wid)
    ELSE [ss |-> ss, wid |-> wid, raised |-> "none", view |-> FedexView(ld.outcome)]

\* the FedEx tab (lines 121-139)
FedexTab(file, click, ss, wid) ==
    IF file = NoFile
    THEN [ss |-> ss, wid |-> wid, raised |-> "none", view |-> FedexView("no_file")]
    ELSE FedexLoaded(LoadFile(file), click, ss, wid)

\* lines 90-117: the summary and the pivot, or nothing for an empty selection
UpsRender(rows, types, ss, ms) ==
    IF ms.raised
    THEN [ss |-> ss, wid |-> ms.wid, raised |-> "StreamlitAPIException",
          view |-> [UpsView("selector_error") EXCEPT !.options = types]]
    ELSE [ss |-> ss, wid |-> ms.wid, raised |-> "none",
          view |-> IF ms.value # {}
                   THEN [status |-> "rendered", found |-> <<>>,
                         options |-> types,
                         selected |-> ms.value,
                         summary |-> UpsSummary(UpsFiltered(rows, ms.value), ms.value),
                         pivot |-> Pivot(UpsFiltered(rows, ms.value))]
                   ELSE [UpsView("nothing_selected") EXCEPT !.options = types]]

\* lines 83-88
UpsSelect(rows, types, ss, wid) ==
    UpsRender(rows, types, ss,
        Multiselect("ups_multiselect", types, StateGet(ss, "ups_selected"), wid))

\* lines 80-81
UpsButton(rows, types, click, ss, wid) ==
    UpsSelect(rows, types, IF click THEN Put(ss, "ups_selected", types) ELSE ss, wid)

UpsChecked(rows, click, ss, wid) == UpsButton(rows, charge_types(rows), click, ss, wid)

\* lines 70-76, on the table with its column names stripped
UpsStripped(df, click, ss, wid) ==
    IF ~HasCol(df, amount_col)
    THEN \* df[amount_col] of line 70 raises KeyError
         [ss |-> ss, wid |-> wid, raised |-> "KeyError", view |-> UpsView("key_error")]
    ELSE IF ~(\A col \in base_cols : HasCol(df, col))
    THEN [ss |-> ss, wid |-> wid, raised |-> "none",
          view |-> [UpsView("missing_columns") EXCEPT !.found = df.columns]]
    ELSE UpsChecked(UpsRows(df), click, ss, wid)

\* one run of process_ups
process_ups(df, click, ss, wid) == UpsStripped(StripColumns(df), click, ss, wid)

UpsLoaded(ld, click, ss, wid) ==
    IF ld.outcome = "table"
    THEN process_ups(ld.df, click, ss, wid)
    ELSE [ss |-> ss, wid |-> wid, raised |-> "none", view |-> UpsView(ld.outcome)]

\* the UPS tab (lines 143-161)
UpsTab(file, click, ss, wid) ==
    IF file = NoFile
    THEN [ss |-> ss, wid |-> wid, raised |-> "none", view |-> UpsView("no_file")]
    ELSE UpsLoaded(LoadFile(file), click, ss, wid)

SelectorShown(view) == view.status \in {"nothing_selected", "rendered"}

ButtonShown(view) == view.status \in {"selector_error", "nothing_selected", "rendered"}

\* the widgets a completed run drew keep their state; the others lose it
Drawn(fv, uv) ==
    (IF SelectorShown(fv) THEN {"fedex_multiselect"} ELSE {})
        \cup (IF SelectorShown(uv) THEN {"ups_multiselect"} ELSE {})

Restrict(f, S) == [x \in (DOMAIN f) \cap S |-> f[x]]

(***************************************************************************)
(* One run of the script, top to bottom: the FedEx tab, then the UPS tab.  *)
(* An uncaught exception ends the run where it is raised; such a run does  *)
(* not discard the state of the widgets it did not reach.                  *)
(***************************************************************************)
Finished(ft, ut) ==
    [session_state |-> ut.ss,
     widgets |-> IF ut.raised = "none"
                 THEN Restrict(ut.wid, Drawn(ft.view, ut.view))
                 ELSE ut.wid,
     fedex_view |-> ft.view,
     ups_view |-> ut.view,
     uncaught |-> ut.raised]

AfterFedex(ft, uf, clickU) ==
    Finished(ft,
        IF ft.raised = "none"
        THEN UpsTab(uf, clickU, ft.ss, ft.wid)
        ELSE [ss |-> ft.ss, wid |-> ft.wid, raised |-> ft.raised,
              view |-> UpsView("not_run")])

Script(ff, uf, clickF, clickU, ss, wid) ==
    AfterFedex(FedexTab(ff, clickF, ss, wid), uf, clickU)

Page(r, ff, uf, e) ==
    /\ event' = e
    /\ fedex_file' = ff
    /\ ups_file' = uf
    /\ session_state' = r.session_state
    /\ widgets' = r.widgets
    /\ fedex_view' = r.fedex_view
    /\ ups_view' = r.ups_view
    /\ uncaught' = r.uncaught

\* an interaction: the widget states the browser sent, then one run
Rerun(ff, uf, clickF, clickU, wid, e) ==
    Page(Script(ff, uf, clickF, clickU, session_state, wid), ff, uf, e)

(***************************************************************************)
(* The user's interactions.                                                *)
(***************************************************************************)
UploadFedex(f) ==
    /\ f # NoFile
    /\ Rerun(f, ups_file, FALSE, FALSE, widgets, "upload_fedex")

RemoveFedex ==
    /\ fedex_file # NoFile
    /\ Rerun(NoFile, ups_file, FALSE, FALSE, widgets, "remove_fedex")

SelectAllFedex ==
    /\ ButtonShown(fedex_view)
    /\ Rerun(fedex_file, ups_file, TRUE, FALSE, widgets, "select_all_fedex")

ChangeFedex(S) ==
    /\ SelectorShown(fedex_view)
    /\ S \subseteq fedex_view.options
    /\ S # fedex_view.selected
    /\ Rerun(fedex_file, ups_file, FALSE, FALSE,
             [widgets EXCEPT !["fedex_multiselect"].value = S], "change_fedex")

\* the UPS tab's widgets are on the page only if the run reached that tab
UploadUps(f) ==
    /\ ups_view.status # "not_run"
    /\ f # NoFile
    /\ Rerun(fedex_file, f, FALSE, FALSE, widgets, "upload_ups")

RemoveUps ==
    /\ ups_view.status # "not_run"
    /\ ups_file # NoFile
    /\ Rerun(fedex_file, NoFile, FALSE, FALSE, widgets, "remove_ups")

SelectAllUps ==
    /\ ButtonShown(ups_view)
    /\ Rerun(fedex_file, ups_file, FALSE, TRUE, widgets, "select_all_ups")

ChangeUps(S) ==
    /\ SelectorShown(ups_view)
    /\ S \subseteq ups_view.options
    /\ S # ups_view.selected
    /\ Rerun(fedex_file, ups_file, FALSE, FALSE,
             [widgets EXCEPT !["ups_multiselect"].value = S], "change_ups")

(***************************************************************************)
(* Input files.                                                            *)
(***************************************************************************)
Categories == {"A", "B"}

FedexHeader == <<TrackingCol, DescCol(1), AmtCol(1), DescCol(2), AmtCol(2)>>

FedexFile(rows) ==
    [ext |-> ".csv", content |-> "utf8", columns |-> FedexHeader, rows |-> rows]

UpsHeader == <<lead_col, ref_col, charge_col, amount_col>>

UpsFile(rows) ==
    [ext |-> ".csv", content |-> "utf8", columns |-> UpsHeader, rows |-> rows]

\* the file with columns p[1], p[2], ... of f, in that order
Project(f, p) ==
    [f EXCEPT !.columns = [j \in 1..Len(p) |-> f.columns[p[j]]],
              !.rows = [i \in 1..Len(f.rows) |-> [j \in 1..Len(p) |-> f.rows[i][p[j]]]]]

\* the file with column j's name surrounded by whitespace
Pad(f, j) == [f EXCEPT !.columns[j] = Padded(f.columns[j].text)]

\* the same table in another container or encoding
As(f, ext, content) == [f EXCEPT !.ext = ext, !.content = content]

Containers ==
    {<<".csv", "utf8">>, <<".csv", "latin1">>, <<".xlsx", "workbook">>,
     <<".xlsx", "garbage">>, <<".CSV", "utf8">>}

\* the files of the session
SessionFedexFiles ==
    LET a == FedexFile(<< <<"T1", "A", "1", "", "">> >>)
        ab == FedexFile(<< <<"T1", "A", "abc", "B", "2">>, <<"T2", "", "", "", "">> >>)
        b == FedexFile(<< <<"T1", "B", "N/A", "B", "1">> >>)
    IN {a, ab, b, As(a, ".csv", "latin1"), As(ab, ".xlsx", "workbook")}

SessionUpsFiles ==
    LET a == UpsFile(<< <<"100", "R1", "A", "1">>, <<"100", "R1", "A", "2">> >>)
        ab == UpsFile(<< <<"200", "R1", "A", "abc">>, <<"", "R1", "B", "2">> >>)
        b == UpsFile(<< <<"100", "R2", "B", "1">> >>)
    IN {a, ab, b, Project(ab, <<1, 2, 3>>), Project(a, <<2, 3, 4>>),
        As(b, ".csv", "latin1")}

EmptyMap == [x \in {} |-> {}]

Init ==
    /\ fedex_file = NoFile
    /\ ups_file = NoFile
    /\ session_state = EmptyMap
    /\ widgets = EmptyMap
    /\ fedex_view = FedexView("no_file")
    /\ ups_view = UpsView("no_file")
    /\ uncaught = "none"
    /\ event = "open"

Next ==
    \/ \E f \in SessionFedexFiles : UploadFedex(f)
    \/ RemoveFedex
    \/ SelectAllFedex
    \/ \E S \in SUBSET Categories : ChangeFedex(S)
    \/ \E f \in SessionUpsFiles : UploadUps(f)
    \/ RemoveUps
    \/ SelectAllUps
    \/ \E S \in SUBSET Categories : ChangeUps(S)

Spec == Init /\ [][Next]_vars

(***************************************************************************)
(* The parsers as functions of the uploaded table: a fresh session with    *)
(* one file, any table within the bounds, already uploaded; then the       *)
(* selections the user can make on it.                                     *)
(***************************************************************************)
\* one charge slot of a FedEx row: a description and its amount, or empty
FedexSlots ==
    {<<"", "">>, <<"A", "1">>, <<"A", "abc">>, <<"B", "N/A">>, <<"B", "2">>}

FedexRowPool == {<<"T1">> \o a \o b : a \in FedexSlots, b \in FedexSlots}

FedexTables == {FedexFile(rows) : rows \in SeqsUpTo(FedexRowPool, MaxFedexRows)}

OneRow(files) == {f \in files : Len(f.rows) = 1}

\* other column layouts: slots out of file order, no tracking column,
\* an amount column missing
FedexLayouts == {<<4, 5, 1, 2, 3>>, <<2, 3, 4, 5>>, <<1, 2, 4, 5>>}

FedexData ==
    FedexTables
        \cup {Project(f, p) : f \in OneRow(FedexTables), p \in FedexLayouts}
        \cup {As(f, c[1], c[2]) : f \in OneRow(FedexTables), c \in Containers}

\* shipment keys: two leads, two references, each of the two missing
UpsKeys == {<<"100", "R1">>, <<"100", "R2">>, <<"200", "R1">>, <<"", "R1">>, <<"100", "">>}

UpsRowPool ==
    {k \o <<c, a>> : k \in UpsKeys, c \in Categories, a \in {"abc", "1"}}
        \cup {<<"100", "R1", "", "1">>, <<"100", "R1", "A", "N/A">>,
              <<"200", "R1", "B", "2">>}

UpsTables == {UpsFile(rows) : rows \in SeqsUpTo(UpsRowPool, MaxUpsRows)}

\* other column layouts: each base column missing, the columns reversed
UpsLayouts == {<<2, 3, 4>>, <<1, 3, 4>>, <<1, 2, 4>>, <<1, 2, 3>>, <<4, 3, 2, 1>>}

UpsData ==
    UpsTables
        \cup {Project(f, p) : f \in OneRow(UpsTables), p \in UpsLayouts}
        \cup {Pad(f, j) : f \in OneRow(UpsTables), j \in 1..4}
        \cup {Pad(Project(f, p), 1) : f \in OneRow(UpsTables), p \in UpsLayouts}
        \cup {As(f, c[1], c[2]) : f \in OneRow(UpsTables), c \in Containers}

Opened(r, ff, uf, e) ==
    /\ event = e
    /\ fedex_file = ff
    /\ ups_file = uf
    /\ session_state = r.session_state
    /\ widgets = r.widgets
    /\ fedex_view = r.fedex_view
    /\ ups_view = r.ups_view
    /\ uncaught = r.uncaught

InitData ==
    \/ \E f \in FedexData :
          Opened(Script(f, NoFile, FALSE, FALSE, EmptyMap, EmptyMap), f, NoFile,
                 "upload_fedex")
    \/ \E f \in UpsData :
          Opened(Script(NoFile, f, FALSE, FALSE, EmptyMap, EmptyMap), NoFile, f,
                 "upload_ups")

NextData ==
    \/ \E S \in SUBSET Categories : ChangeFedex(S)
    \/ \E S \in SUBSET Categories : ChangeUps(S)

SpecData == InitData /\ [][NextData]_vars

(***************************************************************************)
(* Properties.                                                             *)
(***************************************************************************)
\* the UPS table as process_ups reads it, when the file loads
UpsDf == StripColumns(LoadFile(ups_file).df)

UpsLoads == ups_file # NoFile /\ LoadFile(ups_file).outcome = "table"

UpsComplete == UpsLoads /\ \A col \in base_cols : HasCol(UpsDf, col)

\* the rows of the uploaded UPS table whose charge description is selected
UpsPassing == {i \in 1..Len(UpsDf.rows) : UpsRows(UpsDf)[i].charge \in ups_view.selected}

RECURSIVE SumOver(_, _)
SumOver(f, S) ==
    IF S = {} THEN 0
    ELSE LET x == CHOOSE y \in S : TRUE IN f[x] + SumOver(f, S \ {x})

\* the coerced amount of each row of the uploaded UPS table, missing as 0
UpsAmount == [i \in 1..Len(UpsDf.rows) |->
                 IF UpsRows(UpsDf)[i].amt.nan THEN 0 ELSE UpsRows(UpsDf)[i].amt.v]

PivotRows == ups_view.pivot.rows

(* C1: a UPS table that lacks any of the four required columns after the   *)
(* headers are stripped, DTrans Amount included, ends with the error that  *)
(* lists the columns found: no exception, no selector, summary or table.   *)
C1_MissingColumnSurfacesError ==
    (UpsLoads /\ ~UpsComplete /\ ups_view.status # "not_run") =>
        /\ uncaught = "none"
        /\ ups_view.status = "missing_columns"
        /\ ups_view.found = UpsDf.columns
        /\ ups_view.options = {}
        /\ ups_view.summary = EmptyMap
        /\ ups_view.pivot = NoTable

(* C2: for a non-empty UPS selection the Total column of the pivot sums to *)
(* the coerced DTrans Amount summed over all rows that pass the filter,    *)
(* rows without a Lead Shipment Number or a Reference Number included.     *)
C2_PivotConservesTotal ==
    ups_view.status = "rendered" =>
        SumSeq([i \in 1..Len(PivotRows) |-> PivotRows[i].Total])
            = SumOver(UpsAmount, UpsPassing)

(* C3, as claimed: the pivot's rows are in descending order of Total.      *)
C3_RowsByTotalDescending ==
    ups_view.status = "rendered" =>
        \A i, j \in 1..Len(PivotRows) : i < j => PivotRows[i].Total >= PivotRows[j].Total

(* C3, amended: the pivot's rows are in the order the grouping produced    *)
(* them, ascending by Shipment Key (Lead Shipment Number, then Shipment    *)
(* Reference Number 1); they are not reordered by Total.                   *)
C3_RowsInGroupOrder ==
    ups_view.status = "rendered" =>
        \A i, j \in 1..Len(PivotRows) :
            i < j => KeyLess(<<PivotRows[i].lead, PivotRows[i].ref>>,
                             <<PivotRows[j].lead, PivotRows[j].ref>>)

\* a pivot whose first row has the smaller Total
C3_Witness ==
    /\ ups_view.status = "rendered"
    /\ Len(PivotRows) >= 2
    /\ PivotRows[1].Total < PivotRows[2].Total

\* the passing rows of one shipment key and charge
UpsCellRows(lead, ref, charge) ==
    {i \in UpsPassing : /\ UpsRows(UpsDf)[i].lead = lead
                        /\ UpsRows(UpsDf)[i].ref = ref
                        /\ UpsRows(UpsDf)[i].charge = charge}

\* the shipment keys, both parts present, of the passing rows
UpsPassingKeys ==
    {<<UpsRows(UpsDf)[i].lead, UpsRows(UpsDf)[i].ref>> :
        i \in {j \in UpsPassing : /\ notna(UpsRows(UpsDf)[j].lead)
                                  /\ notna(UpsRows(UpsDf)[j].ref)}}

FedexDf == LoadFile(fedex_file).df

FedexLoads == fedex_file # NoFile /\ LoadFile(fedex_file).outcome = "table"

\* the paired slots: the k-th description column with the k-th amount column
FedexSlotCount ==
    Min(Len(charge_description_cols(FedexDf)), Len(charge_amount_cols(FedexDf)))

SlotDesc(t, i, k) == t.rows[i][ColPos(t, charge_description_cols(FedexDf)[k])]

SlotAmt(t, i, k) == t.rows[i][ColPos(t, charge_amount_cols(FedexDf)[k])]

Max(S) == CHOOSE x \in S : \A y \in S : y <= x

\* the slots of row i of table t whose description is d
SlotsOf(t, i, d) == {k \in 1..FedexSlotCount : SlotDesc(t, i, k) = d}

Reshaped == fedex_view.result_df

(* C6: in the reshaped FedEx table the cell "d (PL-DZ)" of a row is the    *)
(* amount cell of the last paired slot of that row whose description is d  *)
(* (not the first, not a sum), and is missing when d is in none of the     *)
(* row's slots; every present, non-empty description has its column.       *)
C6_LastSlotWins ==
    ButtonShown(fedex_view) =>
        /\ Len(Reshaped.rows) = Len(FedexDf.rows)
        /\ \A i \in 1..Len(FedexDf.rows) :
              /\ \A k \in 1..FedexSlotCount :
                    (notna(SlotDesc(FedexDf, i, k)) /\ SlotDesc(FedexDf, i, k) # "")
                        => Label(SlotDesc(FedexDf, i, k)) \in Reshaped.columns
              /\ \A col \in Reshaped.columns \ {TrackingLabel} :
                    IF SlotsOf(FedexDf, i, Unlabel(col)) = {}
                    THEN Reshaped.rows[i][col] = NaN
                    ELSE Reshaped.rows[i][col] =
                            SlotAmt(FedexDf, i, Max(SlotsOf(FedexDf, i, Unlabel(col))))

\* a row with one description in two slots: the second amount is the cell
C6_Witness ==
    /\ ButtonShown(fedex_view)
    /\ Len(FedexDf.rows) = 1
    /\ FedexSlotCount = 2
    /\ SlotsOf(FedexDf, 1, "A") = {1, 2}
    /\ SlotAmt(FedexDf, 1, 1) = "1"
    /\ SlotAmt(FedexDf, 1, 2) = "abc"
    /\ Reshaped.rows[1][Label("A")] = "abc"

\* the reshaped rows with a non-missing cell in some selected category
FedexKept ==
    {i \in 1..Len(Reshaped.rows) :
        \E p \in fedex_view.selected : notna(Reshaped.rows[i][Label(p)])}

Nth(S, j) == CHOOSE i \in S : Cardinality({x \in S : x <= i}) = j

(* C7: for a non-empty FedEx selection the rendered table has exactly the  *)
(* Tracking ID column and one column per selected category, and holds, in  *)
(* order, exactly the reshaped rows with a non-missing cell in at least    *)
(* one selected category.                                                  *)
C7_FilteredView ==
    fedex_view.status = "rendered" =>
        /\ fedex_view.selected # {}
        /\ fedex_view.table.columns =
              {TrackingLabel} \cup {Label(p) : p \in fedex_view.selected}
        /\ Len(fedex_view.table.rows) = Cardinality(FedexKept)
        /\ \A j \in 1..Len(fedex_view.table.rows) :
              \A col \in fedex_view.table.columns :
                  fedex_view.table.rows[j][col] = Reshaped.rows[Nth(FedexKept, j)][col]

\* two categories selected: a row with one of them stays, a row with
\* neither a value goes
C7_Witness ==
    /\ fedex_view.status = "rendered"
    /\ fedex_view.selected = {"A", "B"}
    /\ Len(Reshaped.rows) = 2
    /\ Len(fedex_view.table.rows) = 1
    /\ fedex_view.table.rows[1][Label("A")] = "1"
    /\ fedex_view.table.rows[1][Label("B")] = NaN

\* the rows of the uploaded FedEx file with penalty p in a paired slot
FedexRowsWith(p) == {i \in 1..Len(fedex_file.rows) : SlotsOf(fedex_file, i, p) # {}}

\* the amount cell, as written in the file, that row i shows for penalty p
FileAmount(i, p) == SlotAmt(fedex_file, i, Max(SlotsOf(fedex_file, i, p)))

IsNumeral(c) == c \in DOMAIN NumeralValue

NumeralOr0(c) == IF IsNumeral(c) THEN NumeralValue[c] ELSE 0

\* the rows of the uploaded UPS file with charge c, and their amounts as written
UpsRowsWith(c) ==
    {i \in 1..Len(ups_file.rows) : ups_file.rows[i][ColPos(UpsDf, charge_col)] = c}

UpsFileAmount(i) == ups_file.rows[i][ColPos(UpsDf, amount_col)]

\* the sums and the UPS counts, which the claim and its amendment share
SummarySums ==
    /\ FedexLoads => uncaught = "none"
    /\ UpsComplete => uncaught = "none"
    /\ fedex_view.status = "rendered" =>
          \A p \in fedex_view.selected :
              fedex_view.summary[p].total =
                  SumOver([i \in FedexRowsWith(p) |-> NumeralOr0(FileAmount(i, p))],
                          FedexRowsWith(p))
    /\ ups_view.status = "rendered" =>
          \A c \in ups_view.selected :
              /\ ups_view.summary[c].total =
                    SumOver([i \in UpsRowsWith(c) |-> NumeralOr0(UpsFileAmount(i))],
                            UpsRowsWith(c))
              /\ ups_view.summary[c].count = Cardinality(UpsRowsWith(c))

(* C8, as claimed: an amount cell holding non-numeric text ("N/A"          *)
(* included) raises nothing, adds nothing to the category's sum, and its   *)
(* row is in the category's count: FedEx counts the rows whose amount      *)
(* cell is not empty, UPS the rows that pass the filter.                   *)
C8_TextAmountsCounted ==
    /\ SummarySums
    /\ fedex_view.status = "rendered" =>
          \A p \in fedex_view.selected :
              fedex_view.summary[p].count =
                  Cardinality({i \in FedexRowsWith(p) : FileAmount(i, p) # ""})

(* C8, amended: the same, except that FedEx does not count a row whose     *)
(* amount cell holds one of the reader's missing-value texts (such as      *)
(* "N/A"), which is loaded as missing; it counts every other text.         *)
C8_TextAmountsCountedUnlessNaText ==
    /\ SummarySums
    /\ fedex_view.status = "rendered" =>
          \A p \in fedex_view.selected :
              fedex_view.summary[p].count =
                  Cardinality({i \in FedexRowsWith(p) : FileAmount(i, p) \notin NaValues})

\* two rows of one penalty, amounts "1" and "abc": counted twice, summed once
C8_Witness ==
    /\ fedex_view.status = "rendered"
    /\ "A" \in fedex_view.selected
    /\ FedexRowsWith("A") = {1, 2}
    /\ FileAmount(1, "A") = "1"
    /\ FileAmount(2, "A") = "abc"
    /\ fedex_view.summary["A"] = [count |-> 2, total |-> 1]

(* C9: in either upload slot a CSV file that is not valid UTF-8 but is     *)
(* Latin-1 text is loaded and handed to the carrier's parser; it does not  *)
(* end as a file read failure.                                             *)
C9_Latin1Fallback ==
    /\ (fedex_file.ext = ".csv" /\ fedex_file.content = "latin1")
          => ButtonShown(fedex_view)
    /\ (ups_file.ext = ".csv" /\ ups_file.content = "latin1" /\ ups_view.status # "not_run")
          => ups_view.status \notin {"read_error", "unsupported", "no_file"}

(* C4: a run caused by "select all" has the full category set of the       *)
(* current file as its active selection, whatever came before.             *)
C4_SelectAllSelectsAll ==
    /\ event = "select_all_fedex" =>
          SelectorShown(fedex_view) /\ fedex_view.selected = fedex_view.options
    /\ event = "select_all_ups" =>
          SelectorShown(ups_view) /\ ups_view.selected = ups_view.options

(* C10: whenever a parser has run on the current file, the selection kept  *)
(* in session state and the active selection are subsets of that file's    *)
(* categories.                                                             *)
C10_SelectionWithinUniverse ==
    /\ ButtonShown(fedex_view) =>
          /\ StateGet(session_state, "fedex_selected") \subseteq fedex_view.options
          /\ fedex_view.selected \subseteq fedex_view.options
    /\ ButtonShown(ups_view) =>
          /\ StateGet(session_state, "ups_selected") \subseteq ups_view.options
          /\ ups_view.selected \subseteq ups_view.options

=============================================================================
